---- MODULE Spec2Model ----
(***************************************************************************)
(* A model of the Nebula TypeScript SDK: the client container (config and   *)
(* token slot), the resource modules that build a request context, and the  *)
(* transport pipeline makeRequest (src/src/http.ts) with its countdown,     *)
(* abort controller, body parsing and status-to-error mapping.              *)
(*                                                                          *)
(* JavaScript runs each piece of code between two awaits to completion, so  *)
(* one action is one such piece: the synchronous part of a call up to       *)
(* `await fetchFn(...)`, the timer callback, the continuation after the     *)
(* transport promise resolves or rejects, and the continuation after        *)
(* `await response.text()`.                                                 *)
(***************************************************************************)
EXTENDS Integers, Sequences, FiniteSets, TLC

VARIABLES config, authToken, fetchHonoursAbort, calls, client, raised

vars == <<config, authToken, fetchHonoursAbort, calls, client, raised>>

(***************************************************************************)
(* Bounds of the model.                                                     *)
(***************************************************************************)
\* How many makeRequest calls one behaviour issues (they may all be in flight).
NumCalls == 2

Calls == 1..NumCalls

(***************************************************************************)
(* JavaScript strings.  A string is a sequence of fragments, so that a      *)
(* template literal is the concatenation of its parts and "contains" is a   *)
(* test the model can fail.  The empty string is the empty sequence.        *)
(***************************************************************************)
Lit(s) == IF s = "" THEN <<>> ELSE <<s>>

Contains(msg, part) ==
    \E i \in 0..(Len(msg) - Len(part)) :
        \A j \in 1..Len(part) : msg[i + j] = part[j]

(***************************************************************************)
(* JavaScript values, all of one record shape.  `has` is the set of own     *)
(* properties among error / message / details that an object carries.       *)
(***************************************************************************)
Prim(t, v) ==
    [t |-> t, v |-> v, has |-> {}, error |-> <<>>, message |-> <<>>, details |-> <<>>]

UNDEF == Prim("undefined", <<>>)
NULL == Prim("null", <<>>)
Str(s) == Prim("string", Lit(s))
Num(n) == Prim("number", <<ToString(n)>>)
Bool(b) == Prim("boolean", <<ToString(b)>>)
Arr == Prim("array", <<>>)

\* An object literal with the listed properties (strings); `rest` names its other fields.
Obj(has, e, m, d, rest) ==
    [t |-> "object", v |-> rest, has |-> has, error |-> e, message |-> m, details |-> d]

\* ToBoolean: what `if (x)` and `x || y` test.
Truthy(x) ==
    CASE x.t \in {"undefined", "null"} -> FALSE
      [] x.t = "number" -> x.v # <<"0">>
      [] x.t = "boolean" -> x.v = <<"TRUE">>
      [] x.t = "string" -> x.v # <<>>
      [] OTHER -> TRUE

\* String(x) / `${x}` for the primitives the model uses.
ToStr(x) ==
    CASE x.t = "string" -> x.v
      [] x.t = "undefined" -> <<"undefined">>
      [] x.t = "null" -> <<"null">>
      [] x.t = "number" -> x.v
      [] x.t = "boolean" -> IF x.v = <<"TRUE">> THEN <<"true">> ELSE <<"false">>
      [] OTHER -> <<"[object Object]">>

\* JSON.stringify(x): the serialized document sent as the request body.
JSONStringify(x) == [present |-> TRUE, json |-> x]

\* `body: undefined` in the fetch options: no request body.
NoBody == [present |-> FALSE, json |-> UNDEF]

(***************************************************************************)
(* The error taxonomy (src/errors.ts).  A thrown value is a record: `kind`  *)
(* is the class, `statusCode` is 0 and `errorData` undefined for the        *)
(* classes that have no such field.                                         *)
(***************************************************************************)
\* What a promise rejects with or a throw carries, when it is not an SDK error.
Thrown(t, name, message) == [t |-> t, name |-> name, message |-> message]

NoCause == Thrown("undefined", "", <<>>)

NebulaError(message) ==
    [kind |-> "NebulaError", message |-> message, statusCode |-> 0,
     errorData |-> UNDEF, cause |-> NoCause]

ApiError(message, statusCode, errorData) ==
    [NebulaError(message) EXCEPT !.kind = "ApiError", !.statusCode = statusCode,
                                 !.errorData = errorData]

NetworkError(message, cause) ==
    [NebulaError(message) EXCEPT !.kind = "NetworkError", !.cause = cause]

TimeoutError(message) ==
    [NetworkError(message, NoCause) EXCEPT !.kind = "TimeoutError"]

AuthError(message, errorData) ==
    [ApiError(message, 401, errorData) EXCEPT !.kind = "AuthError"]

ForbiddenError(message, errorData) ==
    [ApiError(message, 403, errorData) EXCEPT !.kind = "ForbiddenError"]

NotFoundError(message, errorData) ==
    [ApiError(message, 404, errorData) EXCEPT !.kind = "NotFoundError"]

BadRequestError(message, errorData) ==
    [ApiError(message, 400, errorData) EXCEPT !.kind = "BadRequestError"]

RateLimitError(message, errorData) ==
    [ApiError(message, 429, errorData) EXCEPT !.kind = "RateLimitError"]

\* Fault variant of ServerError: the status code is taken as given.
ServerError_NoClamp(message, statusCode, errorData) ==
    [ApiError(message, statusCode, errorData) EXCEPT !.kind = "ServerError"]

ServerError(message, statusCode, errorData) ==
    LET validStatusCode == IF statusCode >= 500 THEN statusCode ELSE 500
    IN  [ApiError(message, validStatusCode, errorData) EXCEPT !.kind = "ServerError"]

\* A value thrown by the runtime itself (not an SDK class): TypeError, plain Error.
NativeError(name, message) ==
    [NebulaError(message) EXCEPT !.kind = name]

NoError == NativeError("none", <<>>)

ApiKinds ==
    {"ApiError", "AuthError", "ForbiddenError", "NotFoundError", "BadRequestError",
     "RateLimitError", "ServerError"}

\* `new <kind>(message, statusCode, errorData)` for the classes with a status
\* code; only ApiError and ServerError take one.
NewApiKindError(kind, message, statusCode, errorData) ==
    CASE kind = "ApiError" -> ApiError(message, statusCode, errorData)
      [] kind = "AuthError" -> AuthError(message, errorData)
      [] kind = "ForbiddenError" -> ForbiddenError(message, errorData)
      [] kind = "NotFoundError" -> NotFoundError(message, errorData)
      [] kind = "BadRequestError" -> BadRequestError(message, errorData)
      [] kind = "RateLimitError" -> RateLimitError(message, errorData)
      [] OTHER -> ServerError(message, statusCode, errorData)

\* The classes `kind` extends, itself included (the prototype chain below Error).
Ancestors(kind) ==
    CASE kind = "NebulaError" -> {"NebulaError"}
      [] kind = "ApiError" -> {"ApiError", "NebulaError"}
      [] kind = "NetworkError" -> {"NetworkError", "NebulaError"}
      [] kind = "TimeoutError" -> {"TimeoutError", "NetworkError", "NebulaError"}
      [] kind \in ApiKinds -> {kind, "ApiError", "NebulaError"}
      [] OTHER -> {kind}

\* err instanceof cls
InstanceOf(err, cls) == cls \in Ancestors(err.kind)

(***************************************************************************)
(* makeRequest, the pure parts (src/src/http.ts).                           *)
(***************************************************************************)
\* config.ts is not among the sources; the client constructor and the
\* specification both give 30000 ms.
DEFAULT_TIMEOUT == 30000

USER_AGENT == <<"USER_AGENT">>

\* http.ts:33  timeout ?? DEFAULT_TIMEOUT  (timeout is a number or undefined/null)
RequestTimeout(timeout) ==
    IF timeout.t \in {"undefined", "null"} THEN <<ToString(DEFAULT_TIMEOUT)>> ELSE timeout.v

\* http.ts:35  baseURL.replace(/\/$/, '')
StripTrailingSlash(s) ==
    IF Len(s) > 0 /\ s[Len(s)] = "/" THEN SubSeq(s, 1, Len(s) - 1) ELSE s

\* http.ts:35  path.replace(/^\//, '')
StripLeadingSlash(s) ==
    IF Len(s) > 0 /\ s[1] = "/" THEN SubSeq(s, 2, Len(s)) ELSE s

\* http.ts:35  `${base}/${path}`
JoinUrl(baseURL, path) ==
    StripTrailingSlash(baseURL) \o <<"/">> \o StripLeadingSlash(path)

\* The property keys that are array indices, with their numeric values.
IndexKeys == {"1", "2", "10"}

IndexOf(key) == CASE key = "1" -> 1 [] key = "2" -> 2 [] key = "10" -> 10 [] OTHER -> 0

\* http.ts:37  Object.entries(queryParams).  The mapping is the sequence of its
\* <<key, value>> properties in the order they were inserted; the enumeration
\* yields the index keys first, in ascending numeric order, and then the other
\* keys in insertion order.
ObjectEntries(queryParams) ==
    LET named == SelectSeq(queryParams, LAMBDA e : e[1] \notin IndexKeys)
        indexed == {i \in 1..Len(queryParams) : queryParams[i][1] \in IndexKeys}
        RECURSIVE Ascending(_)
        Ascending(left) ==
            IF left = {} THEN <<>>
            ELSE LET least == CHOOSE i \in left :
                                 \A j \in left :
                                     IndexOf(queryParams[i][1]) <= IndexOf(queryParams[j][1])
                 IN  <<queryParams[least]>> \o Ascending(left \ {least})
    IN  Ascending(indexed) \o named

\* Fault variant of SearchParams: a parameter is appended when its value is truthy.
SearchParams_SkipsFalsy(queryParams) ==
    LET RECURSIVE Walk(_)
        Walk(q) ==
            IF q = <<>> THEN <<>>
            ELSE IF Truthy(q[1][2])
                 THEN <<(<<q[1][1], ToStr(q[1][2])>>)>> \o Walk(Tail(q))
                 ELSE Walk(Tail(q))
    IN  Walk(ObjectEntries(queryParams))

\* http.ts:36-42  the name-value list of url.searchParams after the forEach.
\* queryParams is the mapping, empty when the argument is undefined.
SearchParams(queryParams) ==
    LET RECURSIVE Walk(_)
        Walk(q) ==
            IF q = <<>> THEN <<>>
            ELSE IF q[1][2].t \notin {"undefined", "null"}
                 THEN <<(<<q[1][1], ToStr(q[1][2])>>)>> \o Walk(Tail(q))
                 ELSE Walk(Tail(q))
    IN  Walk(ObjectEntries(queryParams))

\* http.ts:47  Authorization: `ApiKey ${apiKey}`
AuthorizationHeader(context) == <<"ApiKey ">> \o ToStr(context.apiKey)

\* http.ts:50  if (body)
SendsBody(body) == Truthy(body)

\* Fault variant of BuildHeaders: the Authorization header is left out when the
\* key is empty.
BuildHeaders_OmitEmptyKey(context, body) ==
    LET names == {"Accept", "User-Agent"}
                   \cup (IF Truthy(context.apiKey) THEN {"Authorization"} ELSE {})
                   \cup (IF SendsBody(body) THEN {"Content-Type"} ELSE {})
    IN  [h \in names |->
            CASE h = "Accept" -> <<"application/json">>
              [] h = "User-Agent" -> USER_AGENT
              [] h = "Authorization" -> AuthorizationHeader(context)
              [] OTHER -> <<"application/json">>]

\* http.ts:44-52  the headers object: a function from the header names it holds.
BuildHeaders(context, body) ==
    LET names == {"Accept", "User-Agent", "Authorization"}
                   \cup (IF SendsBody(body) THEN {"Content-Type"} ELSE {})
    IN  [h \in names |->
            CASE h = "Accept" -> <<"application/json">>
              [] h = "User-Agent" -> USER_AGENT
              [] h = "Authorization" -> AuthorizationHeader(context)
              [] OTHER -> <<"application/json">>]

\* http.ts:61-66  what fetchFn is called with.
BuildRequest(path, method, context, queryParams, body) ==
    [url |-> JoinUrl(context.baseURL, path),
     search |-> SearchParams(queryParams),
     method |-> method,
     headers |-> BuildHeaders(context, body),
     body |-> IF SendsBody(body) THEN JSONStringify(body) ELSE NoBody]

NoRequest ==
    [url |-> <<>>, search |-> <<>>, method |-> "",
     headers |-> [h \in {} |-> <<>>],
     body |-> NoBody]

(***************************************************************************)
(* Responses.  `text` is what response.text() yields; `readFails` says that *)
(* response.text() rejects instead.                                         *)
(***************************************************************************)
Response(status, ctype, text, readFails) ==
    [status |-> status, ctype |-> ctype, text |-> text, readFails |-> readFails]

NoResponse == Response(0, NULL, "", FALSE)

\* Response.ok
Ok(response) == response.status >= 200 /\ response.status <= 299

\* JSON.parse on the body texts of the model: the value, or a SyntaxError.
ParseJSON(text) ==
    CASE text = "{error:boom}" ->
            [threw |-> FALSE, value |-> Obj({"error"}, <<"boom">>, <<>>, <<>>, <<>>)]
      [] text = "{error:boom,details:d}" ->
            [threw |-> FALSE,
             value |-> Obj({"error", "details"}, <<"boom">>, <<>>, <<"d">>, <<>>)]
      [] text = "{message:hello}" ->
            [threw |-> FALSE, value |-> Obj({"message"}, <<>>, <<"hello">>, <<>>, <<>>)]
      [] text = "{id:1}" ->
            [threw |-> FALSE, value |-> Obj({}, <<>>, <<>>, <<>>, <<"id:1">>)]
      [] text = "[]" -> [threw |-> FALSE, value |-> Arr]
      [] text = "null" -> [threw |-> FALSE, value |-> NULL]
      [] OTHER -> [threw |-> TRUE, value |-> UNDEF]

\* http.ts:82-83  contentType && contentType.includes('application/json')
IsJson(response) ==
    Truthy(response.ctype) /\ Contains(response.ctype.v, <<"application/json">>)

\* http.ts:104-106  the body put in place of an unreadable error response.
InvalidJsonBody(status) ==
    Obj({"error"}, <<"Received status ", ToString(status), " with invalid JSON body.">>,
        <<>>, <<>>, <<>>)

\* Fault variant of ReadBody: a failed read throws whatever the status.
ReadBody_ThrowsOnAnyStatus(response) ==
    LET text == response.text
        parsed == ParseJSON(text)
        failed == response.readFails \/ (text # "" /\ IsJson(response) /\ parsed.threw)
    IN  IF failed
        THEN [threw |-> TRUE, body |-> UNDEF,
              error |-> NetworkError(
                  <<"Received non-JSON response from API when JSON was expected.">>,
                  Thrown("error", "SyntaxError", <<"Unexpected token">>))]
        ELSE [threw |-> FALSE,
              body |-> IF text # "" /\ IsJson(response) THEN parsed.value
                       ELSE IF text # "" THEN Obj({"message"}, <<>>, Lit(text), <<>>, <<>>)
                       ELSE NULL,
              error |-> NoError]

\* http.ts:85-107  the try/catch around the body read: either the call throws
\* (threw, with the error) or responseBody is set.
ReadBody(response) ==
    LET text == response.text
        parsed == ParseJSON(text)
        failed == response.readFails \/ (text # "" /\ IsJson(response) /\ parsed.threw)
        cause == IF response.readFails
                 THEN Thrown("error", "TypeError", <<"body stream failed">>)
                 ELSE Thrown("error", "SyntaxError", <<"Unexpected token">>)
    IN  IF failed
        THEN IF Ok(response)
             THEN [threw |-> TRUE, body |-> UNDEF,
                   error |-> NetworkError(
                       <<"Received non-JSON response from API when JSON was expected.">>,
                       cause)]
             ELSE [threw |-> FALSE, body |-> InvalidJsonBody(response.status),
                   error |-> NoError]
        ELSE [threw |-> FALSE,
              body |-> IF text # "" /\ IsJson(response) THEN parsed.value
                       ELSE IF text # "" THEN Obj({"message"}, <<>>, Lit(text), <<>>, <<>>)
                       ELSE NULL,
              error |-> NoError]

\* http.ts:111-116  errorData
ErrorData(responseBody, status) ==
    IF Truthy(responseBody) /\ responseBody.t \in {"object", "array"}
       /\ "error" \in responseBody.has
    THEN responseBody
    ELSE LET message == IF "message" \in responseBody.has
                        THEN responseBody.message ELSE <<>>
         IN  Obj({"error"},
                 IF message # <<>> THEN message
                 ELSE <<"HTTP error! Status: ", ToString(status)>>,
                 <<>>, <<>>, <<>>)

\* Fault variant of StatusError: the `case 429` arm is missing.
StatusError_NoRateLimit(status, errorData) ==
    LET errorMessage == errorData.error
    IN  CASE status = 400 -> BadRequestError(errorMessage, errorData)
          [] status = 401 -> AuthError(errorMessage, errorData)
          [] status = 403 -> ForbiddenError(errorMessage, errorData)
          [] status = 404 -> NotFoundError(errorMessage, errorData)
          [] OTHER ->
                IF status >= 500
                THEN ServerError(errorMessage, status, errorData)
                ELSE ApiError(<<"Unhandled API Error: ">> \o errorMessage, status,
                              errorData)

\* Fault variant of StatusError: the default arm takes every status from 400 up
\* for a server error.
StatusError_ServerFrom400(status, errorData) ==
    LET errorMessage == errorData.error
    IN  CASE status = 400 -> BadRequestError(errorMessage, errorData)
          [] status = 401 -> AuthError(errorMessage, errorData)
          [] status = 403 -> ForbiddenError(errorMessage, errorData)
          [] status = 404 -> NotFoundError(errorMessage, errorData)
          [] status = 429 -> RateLimitError(errorMessage, errorData)
          [] OTHER ->
                IF status >= 400
                THEN ServerError(errorMessage, status, errorData)
                ELSE ApiError(<<"Unhandled API Error: ">> \o errorMessage, status,
                              errorData)

\* http.ts:120-137  the switch on response.status
StatusError(status, errorData) ==
    LET errorMessage == errorData.error
    IN  CASE status = 400 -> BadRequestError(errorMessage, errorData)
          [] status = 401 -> AuthError(errorMessage, errorData)
          [] status = 403 -> ForbiddenError(errorMessage, errorData)
          [] status = 404 -> NotFoundError(errorMessage, errorData)
          [] status = 429 -> RateLimitError(errorMessage, errorData)
          [] OTHER ->
                IF status >= 500
                THEN ServerError(errorMessage, status, errorData)
                ELSE ApiError(<<"Unhandled API Error: ">> \o errorMessage, status,
                              errorData)

(***************************************************************************)
(* Outcomes of a call: the value its promise resolved with, or the error it *)
(* rejected with.                                                           *)
(***************************************************************************)
Pending == [type |-> "none", value |-> UNDEF, error |-> NoError]
Resolved(value) == [type |-> "value", value |-> value, error |-> NoError]
Rejected(error) == [type |-> "error", value |-> UNDEF, error |-> error]

\* http.ts:81-147  everything after the 204 check, once response.text() has settled.
AfterBody(response) ==
    LET read == ReadBody(response)
    IN  IF read.threw THEN Rejected(read.error)
        ELSE IF ~Ok(response)
             THEN Rejected(StatusError(response.status,
                                       ErrorData(read.body, response.status)))
             ELSE Resolved(read.body)

\* http.ts:67-72  the catch around `await fetchFn(...)`; `error` is the rejection value.
\* Reading error.name of null or undefined throws a TypeError out of the catch block.
FetchFailure(error, requestTimeout) ==
    IF error.t \in {"null", "undefined"}
    THEN NativeError("TypeError", <<"Cannot read properties of ", error.t>>)
    ELSE IF error.name = "AbortError"
         THEN TimeoutError(<<"Request timed out after ">> \o requestTimeout \o <<"ms">>)
         ELSE NetworkError(
                  <<"Failed to fetch: ">>
                      \o (IF error.t = "error" THEN error.message ELSE <<"undefined">>),
                  error)

\* http.ts:35  new URL(...) throws a TypeError unless the string is an absolute URL:
\* its first fragment must be a scheme.
IsAbsoluteUrl(url) == Len(url) > 0 /\ url[1] \in {"http:", "https:"}

(***************************************************************************)
(* The client container and the request context.                           *)
(***************************************************************************)
\* NebulaClientConfig with `fetch` left out: the transport is the environment.
Config(baseURL, apiKey, timeout) ==
    [baseURL |-> baseURL, apiKey |-> apiKey, timeout |-> timeout]

\* { ...config, authToken }
Context(cfg, token) ==
    [baseURL |-> cfg.baseURL, apiKey |-> cfg.apiKey, timeout |-> cfg.timeout,
     authToken |-> token]

NoContext == Context(Config(<<>>, UNDEF, UNDEF), UNDEF)

\* modules/*.ts getRequestContext(): the config and the token slot as it is now.
GetRequestContext == Context(config, authToken)

\* modules/auth.ts signup/login: { ...this.context.config, authToken: null }
AnonymousContext == Context(config, NULL)

(***************************************************************************)
(* The NebulaClient object.                                                 *)
(*   state     new (no constructor call yet) | constructed | failed         *)
(*   arg       the argument the constructor was called with                 *)
(*   thrown    what the constructor threw                                   *)
(*   lastSet   the argument of the latest setAuthToken call (history)       *)
(*   returned  what the latest getAuthToken / getConfig call returned       *)
(***************************************************************************)
\* A config object literal: `keys` are the properties it has, in the order
\* baseURL, apiKey, timeout; a property it lacks reads as undefined.
ConfigArg(keys, baseURL, apiKey, timeout) ==
    [t |-> "object", keys |-> keys,
     baseURL |-> IF "baseURL" \in keys THEN baseURL ELSE UNDEF,
     apiKey |-> IF "apiKey" \in keys THEN apiKey ELSE UNDEF,
     timeout |-> IF "timeout" \in keys THEN timeout ELSE UNDEF]

\* new NebulaClient(undefined)
NoConfigArg == [ConfigArg({}, UNDEF, UNDEF, UNDEF) EXCEPT !.t = "undefined"]

NoConfig == Config(<<>>, UNDEF, UNDEF)

NoReturn == [op |-> "none", token |-> UNDEF, config |-> NoConfig]

\* Fault variant of ApplyDefaults: the defaults are spread after the caller's
\* config and override it.
ApplyDefaults_DefaultsLast(arg) ==
    Config(arg.baseURL.v, arg.apiKey, Num(30000))

\* client.ts constructor: { fetch: fetch, timeout: 30000, ...config }
\* A key the caller's object has wins over the default, whatever its value.
ApplyDefaults(arg) ==
    Config(arg.baseURL.v, arg.apiKey,
           IF "timeout" \in arg.keys THEN arg.timeout ELSE Num(30000))

\* Fault variant of ValidateConfig: the baseURL is not parsed.
ValidateConfig_NoUrlCheck(arg) ==
    IF arg.t = "undefined" \/ ~Truthy(arg.baseURL)
    THEN NebulaError(<<"NebulaClient requires baseURL in configuration.">>)
    ELSE NoError

\* client.ts constructor: the checks before anything is stored; what they throw,
\* or NoError.  `new URL(config.baseURL)` throws unless it is an absolute URL.
ValidateConfig(arg) ==
    IF arg.t = "undefined" \/ ~Truthy(arg.baseURL)
    THEN NebulaError(<<"NebulaClient requires baseURL in configuration.">>)
    ELSE IF ~IsAbsoluteUrl(arg.baseURL.v)
         THEN NebulaError(<<"Invalid baseURL provided: ">> \o ToStr(arg.baseURL))
         ELSE NoError

\* The object `new NebulaClient(arg)` leaves behind: none when it threw.
NewClient(arg) ==
    LET thrown == ValidateConfig(arg)
    IN  [state |-> IF thrown = NoError THEN "constructed" ELSE "failed",
         arg |-> arg, thrown |-> thrown, lastSet |-> NULL, returned |-> NoReturn]

NoClient ==
    [state |-> "new", arg |-> NoConfigArg, thrown |-> NoError, lastSet |-> NULL,
     returned |-> NoReturn]

\* The arguments of a module method; one it does not take is undefined.
Args(dbName, tableName, recordId, payload, userId) ==
    [dbName |-> dbName, tableName |-> tableName, recordId |-> recordId,
     payload |-> payload, userId |-> userId]

NoArgs == Args(UNDEF, UNDEF, UNDEF, UNDEF, UNDEF)

(***************************************************************************)
(* One makeRequest call.                                                    *)
(*   pc      idle -> fetching -> (reading ->) settled                       *)
(*   op, ctx, body   the entry point, context and body argument of the call *)
(*   path, query     the path and queryParams arguments of the call         *)
(*   args    the arguments the module method was called with                *)
(*   req     what fetchFn was called with                                   *)
(*   timer   unset -> armed -> fired | cleared   (setTimeout / clearTimeout)*)
(*   aborted controller.signal.aborted                                      *)
(*   fetched how many times fetchFn has been invoked for the call           *)
(*   rejected, rejection   whether fetchFn's promise rejected, and with what *)
(*   settles how many times the call's promise has been settled             *)
(***************************************************************************)
IdleCall ==
    [pc |-> "idle", op |-> "", args |-> NoArgs, ctx |-> NoContext, body |-> UNDEF,
     path |-> <<>>, query |-> <<>>, req |-> NoRequest,
     requestTimeout |-> <<>>, timer |-> "unset", aborted |-> FALSE, fetched |-> 0,
     rejected |-> FALSE, rejection |-> NoCause,
     response |-> NoResponse, bodyRead |-> FALSE, outcome |-> Pending, settles |-> 0]

\* The call's promise settles with `outcome`.
Settle(call, outcome) ==
    [call EXCEPT !.pc = "settled", !.outcome = outcome, !.settles = @ + 1]

\* clearTimeout(timeoutId): a pending timer is cancelled, a fired one stays fired.
ClearTimeout(timer) == IF timer = "armed" THEN "cleared" ELSE timer

\* http.ts:31-66  the synchronous part of makeRequest, up to `await fetchFn(...)`.
\* An unparsable URL throws before any timer or fetch exists.
StartRequest(call, op, path, method, context, queryParams, body) ==
    LET req == BuildRequest(path, method, context, queryParams, body)
    IN  IF ~IsAbsoluteUrl(req.url)
        THEN Settle([call EXCEPT !.op = op, !.ctx = context, !.body = body,
                                 !.path = path, !.query = queryParams],
                    Rejected(NativeError("TypeError", <<"Invalid URL">>)))
        ELSE [call EXCEPT !.pc = "fetching", !.op = op, !.ctx = context, !.body = body,
                          !.path = path, !.query = queryParams, !.req = req,
                          !.requestTimeout = RequestTimeout(context.timeout),
                          !.timer = "armed", !.fetched = @ + 1]

\* Calls are numbered in the order they are issued.
CanIssue(c) ==
    /\ calls[c].pc = "idle"
    /\ \A d \in Calls : d < c => calls[d].pc # "idle"

\* makeRequest called directly with a context of the caller's making.
MakeRequest(c, path, method, context, queryParams, body) ==
    /\ CanIssue(c)
    /\ calls' = [calls EXCEPT
                   ![c] = StartRequest(@, "makeRequest", path, method, context,
                                       queryParams, body)]
    /\ UNCHANGED <<config, authToken, fetchHonoursAbort, client, raised>>

\* Fault variant of SetAuthToken: the calls in flight share the context object the
\* token is written to, so they see the new token.
SetAuthToken_SharedContext(token) ==
    /\ client.state = "constructed"
    /\ authToken' = token
    /\ client' = [client EXCEPT !.lastSet = token]
    /\ calls' = [c \in Calls |->
                    IF calls[c].pc = "fetching"
                    THEN [calls[c] EXCEPT !.ctx.authToken = token]
                    ELSE calls[c]]
    /\ UNCHANGED <<config, fetchHonoursAbort, raised>>

\* Fault variant of SetAuthToken: a null argument leaves the slot as it is.
SetAuthToken_IgnoresNull(token) ==
    /\ client.state = "constructed"
    /\ authToken' = IF token = NULL THEN authToken ELSE token
    /\ client' = [client EXCEPT !.lastSet = token]
    /\ UNCHANGED <<config, fetchHonoursAbort, calls, raised>>

\* NebulaClient.setAuthToken(token)
SetAuthToken(token) ==
    /\ client.state = "constructed"
    /\ authToken' = token
    /\ client' = [client EXCEPT !.lastSet = token]
    /\ UNCHANGED <<config, fetchHonoursAbort, calls, raised>>

\* new NebulaClient(arg): throws, or stores the config with the defaults applied.
\* The token slot starts as null.
Construct(arg) ==
    /\ client.state = "new"
    /\ client' = NewClient(arg)
    /\ config' = IF client'.state = "constructed" THEN ApplyDefaults(arg) ELSE config
    /\ authToken' = NULL
    /\ UNCHANGED <<fetchHonoursAbort, calls, raised>>

\* NebulaClient.getAuthToken()
GetAuthToken ==
    /\ client.state = "constructed"
    /\ client' = [client EXCEPT
                     !.returned = [op |-> "getAuthToken", token |-> authToken,
                                   config |-> NoConfig]]
    /\ UNCHANGED <<config, authToken, fetchHonoursAbort, calls, raised>>

\* NebulaClient.getConfig(): the stored config without `fetch`.
GetConfig ==
    /\ client.state = "constructed"
    /\ client' = [client EXCEPT
                     !.returned = [op |-> "getConfig", token |-> UNDEF,
                                   config |-> config]]
    /\ UNCHANGED <<config, authToken, fetchHonoursAbort, calls, raised>>

\* Fault variant of TimerFire: one AbortController shared by all calls, so the
\* callback aborts every request in flight.
TimerFire_SharedController(c) ==
    /\ calls[c].timer = "armed"
    /\ calls' = [d \in Calls |->
                    IF d = c THEN [calls[d] EXCEPT !.timer = "fired", !.aborted = TRUE]
                    ELSE IF calls[d].pc = "fetching"
                         THEN [calls[d] EXCEPT !.aborted = TRUE]
                         ELSE calls[d]]
    /\ UNCHANGED <<config, authToken, fetchHonoursAbort, client, raised>>

\* http.ts:57  the setTimeout callback: controller.abort()
TimerFire(c) ==
    /\ calls[c].timer = "armed"
    /\ calls' = [calls EXCEPT ![c] = [@ EXCEPT !.timer = "fired", !.aborted = TRUE]]
    /\ UNCHANGED <<config, authToken, fetchHonoursAbort, client, raised>>

\* Fault variant of AfterFetch: no `finally`, the timer is cleared in the catch
\* block only and stays armed when the transport resolves.
AfterFetch_LeavesTimer(call, response) ==
    LET answered == [call EXCEPT !.response = response]
    IN  IF response.status = 204
        THEN Settle(answered, Resolved(NULL))
        ELSE [answered EXCEPT !.pc = "reading", !.bodyRead = TRUE]

\* Fault variant of AfterFetch: no early return for 204, the body is read and parsed.
AfterFetch_No204Check(call, response) ==
    [call EXCEPT !.timer = ClearTimeout(@), !.response = response, !.pc = "reading",
                 !.bodyRead = TRUE]

\* http.ts:73-95  fetchFn's promise resolves with `response`: the finally block
\* clears the timer, a 204 returns null, anything else starts response.text().
\* A transport that honours the signal never resolves once it is aborted.
AfterFetch(call, response) ==
    LET cleared == [call EXCEPT !.timer = ClearTimeout(@), !.response = response]
    IN  IF response.status = 204
        THEN Settle(cleared, Resolved(NULL))
        ELSE [cleared EXCEPT !.pc = "reading", !.bodyRead = TRUE]

TransportResolve(c, response) ==
    /\ calls[c].pc = "fetching"
    /\ ~(fetchHonoursAbort /\ calls[c].aborted)
    /\ calls' = [calls EXCEPT ![c] = AfterFetch(@, response)]
    /\ UNCHANGED <<config, authToken, fetchHonoursAbort, client, raised>>

\* Fault variant of AfterFetchFailure: clearTimeout is missing on the failure path.
AfterFetchFailure_LeavesTimer(call, error) ==
    Settle([call EXCEPT !.rejected = TRUE, !.rejection = error],
           Rejected(FetchFailure(error, call.requestTimeout)))

\* Fault variant of AfterFetchFailure: a failure that is no abort is retried once.
AfterFetchFailure_RetryOnce(call, error) ==
    IF error.name # "AbortError" /\ call.fetched < 2
    THEN [call EXCEPT !.fetched = @ + 1]
    ELSE Settle([call EXCEPT !.timer = ClearTimeout(@), !.rejected = TRUE,
                             !.rejection = error],
                Rejected(FetchFailure(error, call.requestTimeout)))

\* http.ts:67-75  fetchFn's promise rejects with `error`.
AfterFetchFailure(call, error) ==
    Settle([call EXCEPT !.timer = ClearTimeout(@), !.rejected = TRUE,
                        !.rejection = error],
           Rejected(FetchFailure(error, call.requestTimeout)))

AbortError == Thrown("error", "AbortError", <<"This operation was aborted">>)

\* The transport fails on its own, with whatever value it likes.
TransportReject(c, error) ==
    /\ calls[c].pc = "fetching"
    /\ ~(fetchHonoursAbort /\ calls[c].aborted)
    /\ calls' = [calls EXCEPT ![c] = AfterFetchFailure(@, error)]
    /\ UNCHANGED <<config, authToken, fetchHonoursAbort, client, raised>>

\* A transport that honours the signal rejects with an AbortError once aborted.
AbortReject(c) ==
    /\ calls[c].pc = "fetching"
    /\ fetchHonoursAbort /\ calls[c].aborted
    /\ calls' = [calls EXCEPT ![c] = AfterFetchFailure(@, AbortError)]
    /\ UNCHANGED <<config, authToken, fetchHonoursAbort, client, raised>>

\* Fault variant of BodyRead: a login that succeeds stores the session token in
\* the client's token slot.
BodyRead_StoresToken(c) ==
    /\ calls[c].pc = "reading"
    /\ calls' = [calls EXCEPT ![c] = Settle(@, AfterBody(@.response))]
    /\ authToken' = IF calls[c].op = "auth.login" /\ calls'[c].outcome.type = "value"
                     THEN Str("my.jwt.token")
                     ELSE authToken
    /\ UNCHANGED <<config, fetchHonoursAbort, client, raised>>

\* http.ts:85-147  response.text() settles and the rest of makeRequest runs.
BodyRead(c) ==
    /\ calls[c].pc = "reading"
    /\ calls' = [calls EXCEPT ![c] = Settle(@, AfterBody(@.response))]
    /\ UNCHANGED <<config, authToken, fetchHonoursAbort, client, raised>>

(***************************************************************************)
(* The error classes are exported: `raised` is the error the SDK's caller   *)
(* constructed last, with the status code the constructor was given (0 for  *)
(* the classes whose constructor takes none).                               *)
(***************************************************************************)
NoRaise == [given |-> 0, error |-> NoError]

NewError(kind, message, statusCode, errorData) ==
    /\ raised' = [given |-> IF kind \in {"ApiError", "ServerError"} THEN statusCode ELSE 0,
                  error |-> NewApiKindError(kind, message, statusCode, errorData)]
    /\ UNCHANGED <<config, authToken, fetchHonoursAbort, calls, client>>

(***************************************************************************)
(* Resource modules: validation, path, context, then makeRequest.           *)
(***************************************************************************)
\* A plain `throw new Error(message)` of a module's input validation.
ValidationError(message) == NativeError("Error", message)

\* A payload object { db_name } (an empty name is the empty string).
DbCreatePayload(db_name) == Obj({}, <<>>, <<>>, <<>>, <<"db_name">> \o Lit(db_name))

\* payload.db_name is a non-empty string
HasDbName(payload) ==
    payload.t = "object" /\ Len(payload.v) = 2 /\ payload.v[1] = "db_name"

Credentials == Obj({}, <<>>, <<>>, <<>>, <<"email", "password">>)

SignUpCredentials == Obj({}, <<>>, <<>>, <<>>, <<"email", "username", "password">>)

\* modules/auth.ts:34-44  signup(credentials)
AuthSignup(c) ==
    /\ client.state = "constructed"
    /\ CanIssue(c)
    /\ calls' = [calls EXCEPT
                   ![c] = StartRequest(@, "auth.signup", <<"auth/signup">>, "POST",
                                       AnonymousContext, <<>>, SignUpCredentials)]
    /\ UNCHANGED <<config, authToken, fetchHonoursAbort, client, raised>>

\* modules/auth.ts:57-61  login(credentials)
AuthLogin(c) ==
    /\ client.state = "constructed"
    /\ CanIssue(c)
    /\ calls' = [calls EXCEPT
                   ![c] = StartRequest(@, "auth.login", <<"auth/login">>, "POST",
                                       AnonymousContext, <<>>, Credentials)]
    /\ UNCHANGED <<config, authToken, fetchHonoursAbort, client, raised>>

\* modules/database.ts:49-51  list()
DatabaseList(c) ==
    /\ client.state = "constructed"
    /\ CanIssue(c)
    /\ calls' = [calls EXCEPT
                   ![c] = StartRequest(@, "database.list", <<"api/v1/databases">>, "GET",
                                       GetRequestContext, <<>>, UNDEF)]
    /\ UNCHANGED <<config, authToken, fetchHonoursAbort, client, raised>>

\* modules/database.ts:29-40  create(payload)
DatabaseCreate(c, payload) ==
    /\ client.state = "constructed"
    /\ CanIssue(c)
    /\ calls' = [calls EXCEPT
                   ![c] = IF ~Truthy(payload) \/ ~HasDbName(payload)
                          THEN Settle([@ EXCEPT !.op = "database.create",
                                                !.args = Args(UNDEF, UNDEF, UNDEF, payload,
                                                              UNDEF)],
                                      Rejected(ValidationError(
                                          <<"Database name (db_name) is required.">>)))
                          ELSE StartRequest([@ EXCEPT !.args = Args(UNDEF, UNDEF, UNDEF,
                                                                    payload, UNDEF)],
                                            "database.create", <<"api/v1/databases">>,
                                            "POST", GetRequestContext, <<>>, payload)]
    /\ UNCHANGED <<config, authToken, fetchHonoursAbort, client, raised>>

(***************************************************************************)
(* Payload objects of the other modules: the properties in order, each name *)
(* followed by its value as a string ("" is the empty string, "[]" the      *)
(* empty array).                                                            *)
(***************************************************************************)
Payload(fields) == Obj({}, <<>>, <<>>, <<>>, fields)

\* Object.keys(payload): none for a primitive, the indices for an array.
Keys(payload) ==
    IF payload.t = "object"
    THEN {payload.v[i] : i \in {j \in 1..Len(payload.v) : j % 2 = 1}}
    ELSE {}

\* !payload.name: the property is missing or holds the empty string.
Lacks(payload, name) ==
    \A i \in 1..Len(payload.v) :
        (i % 2 = 1 /\ payload.v[i] = name) => payload.v[i + 1] = ""

\* Number.isInteger(x) and x > 0 on the numerals of the model.
IntegerNumerals == {ToString(n) : n \in {-5, -1, 0, 1, 42, 999}}

PositiveNumerals == {ToString(n) : n \in {1, 42, 999}}

NumberIsInteger(x) == x.t = "number" /\ x.v[1] \in IntegerNumerals

\* encodeURIComponent on the names of the model.
EncodeURIComponent(name) ==
    [i \in 1..Len(name) |->
        CASE name[i] = "my db" -> "my%20db"
          [] name[i] = "a/b" -> "a%2Fb"
          [] OTHER -> name[i]]

\* What a validation step yields: the Error it throws, or the path it built.
Invalid(message) == [threw |-> TRUE, error |-> ValidationError(message), path |-> <<>>]
Valid(path) == [threw |-> FALSE, error |-> NoError, path |-> path]

\* modules/record.ts:20-33  buildRecordPath(dbName, tableName, recordId?)
buildRecordPath(dbName, tableName, recordId) ==
    IF ~Truthy(dbName) THEN Invalid(<<"Database name is required.">>)
    ELSE IF ~Truthy(tableName) THEN Invalid(<<"Table name is required.">>)
    ELSE LET path == <<"api/v1/databases/">> \o EncodeURIComponent(ToStr(dbName))
                        \o <<"/tables/">> \o EncodeURIComponent(ToStr(tableName))
                        \o <<"/records">>
         IN  IF recordId # UNDEF
             THEN IF \/ recordId.t # "number"
                     \/ ~NumberIsInteger(recordId)
                     \/ recordId.v[1] \notin PositiveNumerals
                  THEN Invalid(<<"Record ID must be a positive integer.">>)
                  ELSE Valid(path \o <<"/">> \o ToStr(recordId))
             ELSE Valid(path)

\* !payload || typeof payload !== 'object' || Object.keys(payload).length === 0
EmptyPayload(payload) ==
    ~Truthy(payload) \/ payload.t \notin {"object", "array"} \/ Keys(payload) = {}

\* !payload || !payload.table_name || !payload.columns || payload.columns.length === 0
BadSchemaPayload(payload) ==
    \/ ~Truthy(payload)
    \/ "table_name" \notin Keys(payload) \/ Lacks(payload, "table_name")
    \/ "columns" \notin Keys(payload) \/ Lacks(payload, "columns")
    \/ \E i \in 1..Len(payload.v) :
            i % 2 = 1 /\ payload.v[i] = "columns" /\ payload.v[i + 1] = "[]"

\* !payload || (!payload.username && !payload.email)
BadProfilePayload(payload) ==
    \/ ~Truthy(payload)
    \/ /\ ("username" \notin Keys(payload) \/ Lacks(payload, "username"))
       /\ ("email" \notin Keys(payload) \/ Lacks(payload, "email"))

\* A module method: its validation throws a plain Error out of the async
\* function (the promise rejects, makeRequest is never called), or the request
\* goes to makeRequest with the context read from the client at that moment.
ModuleCall(c, op, args, checked, method, body) ==
    /\ client.state = "constructed"
    /\ CanIssue(c)
    /\ calls' = [calls EXCEPT
                   ![c] = IF checked.threw
                          THEN Settle([@ EXCEPT !.op = op, !.args = args],
                                      Rejected(checked.error))
                          ELSE StartRequest([@ EXCEPT !.args = args], op, checked.path,
                                            method, GetRequestContext, <<>>, body)]
    /\ UNCHANGED <<config, authToken, fetchHonoursAbort, client, raised>>

\* Fault variant of DatabaseDelete: the name is not checked.
DatabaseDelete_Unchecked(c, dbName) ==
    ModuleCall(c, "database.delete", Args(dbName, UNDEF, UNDEF, UNDEF, UNDEF),
               Valid(<<"api/v1/databases/">> \o EncodeURIComponent(ToStr(dbName))),
               "DELETE", UNDEF)

\* modules/database.ts:62-71  delete(dbName)
DatabaseDelete(c, dbName) ==
    ModuleCall(c, "database.delete", Args(dbName, UNDEF, UNDEF, UNDEF, UNDEF),
               IF ~Truthy(dbName)
               THEN Invalid(<<"Database name is required for deletion.">>)
               ELSE Valid(<<"api/v1/databases/">> \o EncodeURIComponent(ToStr(dbName))),
               "DELETE", UNDEF)

\* modules/schema.ts:31-45  define(dbName, payload)
SchemaDefine(c, dbName, payload) ==
    ModuleCall(c, "schema.define", Args(dbName, UNDEF, UNDEF, payload, UNDEF),
               IF ~Truthy(dbName) THEN Invalid(<<"Database name is required.">>)
               ELSE IF BadSchemaPayload(payload)
               THEN Invalid(<<"Table name and at least one column definition are required.">>)
               ELSE Valid(<<"api/v1/databases/">> \o EncodeURIComponent(ToStr(dbName))
                              \o <<"/schema">>),
               "POST", payload)

\* modules/schema.ts:72-77  getSchema(dbName, tableName)
SchemaGetSchema(c, dbName, tableName) ==
    ModuleCall(c, "schema.getSchema", Args(dbName, tableName, UNDEF, UNDEF, UNDEF),
               IF ~Truthy(dbName) THEN Invalid(<<"Database name is required.">>)
               ELSE IF ~Truthy(tableName) THEN Invalid(<<"Table name is required.">>)
               ELSE Valid(<<"api/v1/databases/">> \o EncodeURIComponent(ToStr(dbName))
                              \o <<"/tables/">> \o EncodeURIComponent(ToStr(tableName))
                              \o <<"/schema">>),
               "GET", UNDEF)

\* modules/record.ts:47-63  create(dbName, tableName, payload)
RecordCreate(c, dbName, tableName, payload) ==
    ModuleCall(c, "records.create", Args(dbName, tableName, UNDEF, payload, UNDEF),
               IF EmptyPayload(payload)
               THEN Invalid(<<"Record data payload cannot be empty.">>)
               ELSE buildRecordPath(dbName, tableName, UNDEF),
               "POST", payload)

\* modules/record.ts:108-111  get(dbName, tableName, recordId)
RecordGet(c, dbName, tableName, recordId) ==
    ModuleCall(c, "records.get", Args(dbName, tableName, recordId, UNDEF, UNDEF),
               buildRecordPath(dbName, tableName, recordId), "GET", UNDEF)

\* modules/record.ts:126-137  update(dbName, tableName, recordId, payload)
RecordUpdate(c, dbName, tableName, recordId, payload) ==
    ModuleCall(c, "records.update", Args(dbName, tableName, recordId, payload, UNDEF),
               IF EmptyPayload(payload) THEN Invalid(<<"Update payload cannot be empty.">>)
               ELSE buildRecordPath(dbName, tableName, recordId),
               "PUT", payload)

\* modules/record.ts:150-154  delete(dbName, tableName, recordId)
RecordDelete(c, dbName, tableName, recordId) ==
    ModuleCall(c, "records.delete", Args(dbName, tableName, recordId, UNDEF, UNDEF),
               buildRecordPath(dbName, tableName, recordId), "DELETE", UNDEF)

\* modules/auth.ts:97-108  updateProfile(payload)
AuthUpdateProfile(c, payload) ==
    ModuleCall(c, "auth.updateProfile", Args(UNDEF, UNDEF, UNDEF, payload, UNDEF),
               IF BadProfilePayload(payload)
               THEN Invalid(<<"No fields to update. Provide 'username' or 'email'.">>)
               ELSE Valid(<<"api/v1/account/user/me">>),
               "PUT", payload)

\* modules/auth.ts:118-127  findUser(userId)
AuthFindUser(c, userId) ==
    ModuleCall(c, "auth.findUser", Args(UNDEF, UNDEF, UNDEF, UNDEF, userId),
               IF ~Truthy(userId) THEN Invalid(<<"User ID is required.">>)
               ELSE Valid(<<"api/v1/user/">> \o EncodeURIComponent(ToStr(userId))),
               "GET", UNDEF)

(***************************************************************************)
(* The inputs the specifications draw from.                                 *)
(***************************************************************************)
JsonType == Str("application/json")
JsonCharsetType == Prim("string", <<"application/json", "; charset=utf-8">>)
HtmlType == Str("text/html")

Tokens == {NULL, Str("my.jwt.token")}

CreatePayloads == {DbCreatePayload("new_db"), DbCreatePayload(""), UNDEF}

\* What the transport answers in the specification of concurrent calls.
SomeResponses ==
    {Response(200, JsonType, "{id:1}", FALSE),
     Response(204, NULL, "", FALSE),
     Response(404, JsonType, "{error:boom}", FALSE)}

SomeRejections == {AbortError, Thrown("error", "TypeError", <<"fetch failed">>)}

\* What the transport answers in the specification of one direct call.
Statuses == {200, 201, 204, 302, 400, 401, 403, 404, 418, 429, 499, 500, 503}

ContentTypes == {NULL, JsonType, JsonCharsetType, HtmlType}

Texts ==
    {"", "{error:boom}", "{error:boom,details:d}", "{message:hello}", "{id:1}", "[]",
     "null", "<h1>Error</h1>"}

\* Every status, content type and body text, and for every status and content type
\* a response whose body cannot be read.
AllResponses ==
    {Response(st, ct, tx, FALSE) : st \in Statuses, ct \in ContentTypes, tx \in Texts}
        \cup {Response(st, ct, "", TRUE) : st \in Statuses, ct \in ContentTypes}

AllRejections ==
    {AbortError, Thrown("error", "TypeError", <<"fetch failed">>),
     Thrown("error", "Error", <<"Connection refused">>), Thrown("string", "", <<>>),
     Thrown("null", "", <<>>), Thrown("undefined", "", <<>>)}

BodyArgs ==
    {UNDEF, NULL, Num(0), Num(1), Bool(FALSE), Bool(TRUE), Str(""), Str("text"),
     Obj({}, <<>>, <<>>, <<>>, <<"name:New">>)}

TestBaseURL == <<"http:", "//testhost.com">>

TestApiKey == Str("neb_testkey_for_http")

\* Contexts as the tests build them: a key or the empty key, a timeout or none;
\* and one whose base address is no URL (makeRequest itself checks nothing).
DirectContexts ==
    {Context(Config(TestBaseURL, TestApiKey, Num(50)), UNDEF),
     Context(Config(TestBaseURL, TestApiKey, UNDEF), UNDEF),
     Context(Config(TestBaseURL, Str(""), Num(50)), UNDEF),
     Context(Config(<<"invalid">>, TestApiKey, Num(50)), UNDEF)}

\* A GET without a body, or a POST with any body argument.
DirectCalls ==
    {<<"GET", UNDEF>>} \cup {<<"POST", body>> : body \in BodyArgs}

\* Base addresses with no, one and two trailing slashes, with and without a path
\* prefix.
UrlBases ==
    {TestBaseURL, TestBaseURL \o <<"/">>, TestBaseURL \o <<"/", "/">>,
     TestBaseURL \o <<"/", "api">>, TestBaseURL \o <<"/", "api", "/">>}

\* The context of the tests with each of the base addresses.
UrlContexts == {Context(Config(base, TestApiKey, Num(5000)), UNDEF) : base \in UrlBases}

\* Paths with no, one and two leading slashes.
UrlPaths ==
    {<<"resource">>, <<"/", "resource">>, <<"/", "/", "resource">>,
     <<"/", "items", "/", "1">>}

\* queryParams mappings: strings, numbers and booleans, falsy values, undefined
\* and null, and index keys inserted after and before named keys.
QueryMappings ==
    {<<>>,
     <<(<<"category", Str("books")>>), <<"limit", Num(10)>>>>,
     <<(<<"limit", Num(10)>>), <<"category", Str("books")>>>>,
     <<(<<"available", Bool(TRUE)>>), <<"archived", Bool(FALSE)>>>>,
     <<(<<"offset", Num(0)>>), <<"q", Str("")>>, <<"limit", Num(10)>>>>,
     <<(<<"category", UNDEF>>), <<"limit", Num(10)>>, <<"sort", NULL>>>>,
     <<(<<"sort", NULL>>)>>,
     <<(<<"category", Str("books")>>), <<"2", Str("b")>>, <<"1", Str("a")>>>>,
     <<(<<"10", Num(0)>>), <<"2", UNDEF>>, <<"name", Str("x")>>, <<"1", Bool(FALSE)>>>>}

\* Status codes an error is constructed with, below and from 500.
GivenCodes == {0, 200, 404, 499, 500, 503, 599}

ErrorPayloads == {UNDEF, Obj({"error"}, <<"boom">>, <<>>, <<>>, <<>>)}

\* The context of the tests.
ErrorContext == Context(Config(TestBaseURL, TestApiKey, Num(5000)), UNDEF)

\* One answer per status, with the error payload of the tests.
ErrorResponses == {Response(st, JsonType, "{error:boom}", FALSE) : st \in Statuses}

\* Arguments of the module methods: names, record ids and payloads, valid and not.
DbNames == {Str("mydb"), Str("my db"), Str("")}

TableNames == {Str("users"), Str("")}

UserIds == {Str("u1"), Str(""), UNDEF}

RecordIds ==
    {Num(1), Num(42), Num(0), Num(-5), Prim("number", <<"1.5">>),
     Prim("number", <<"NaN">>), Str("abc"), NULL, UNDEF}

RecordPayloads ==
    {UNDEF, NULL, Payload(<<>>), Arr, Str("text"), Payload(<<"name", "New">>)}

SchemaPayloads ==
    {UNDEF, Payload(<<>>),
     Payload(<<"table_name", "users", "columns", "[id]">>),
     Payload(<<"table_name", "", "columns", "[id]">>),
     Payload(<<"table_name", "users", "columns", "[]">>),
     Payload(<<"table_name", "users">>)}

ProfilePayloads ==
    {UNDEF, Payload(<<>>), Payload(<<"username", "">>), Payload(<<"username", "neo">>),
     Payload(<<"email", "neo@example.com">>), Payload(<<"username", "", "email", "">>)}

\* test-helpers.ts createTestClient: the config the test client is built with.
TestClientConfig ==
    ConfigArg({"baseURL", "apiKey", "timeout"},
              Prim("string", <<"http:", "//api.nebula-test.com">>), Str("neb_testkey"),
              Num(5000))

\* Base addresses: absolute URLs, a word, a relative path, the empty string.
BaseURLs ==
    {Prim("string", <<"http:", "//mock-nebula.com">>),
     Prim("string", <<"https:", "//mock-nebula.com", "/">>),
     Str("invalid"), Prim("string", <<"/", "api">>), Str("")}

ApiKeys == {Str("neb_testkey123"), Str("")}

Timeouts == {Num(5000), UNDEF}

\* What the constructor is called with: no config at all, or an object with any
\* subset of the three properties.
ConfigArgs ==
    {NoConfigArg}
        \cup {ConfigArg(keys, b, k, t) :
                 keys \in SUBSET {"baseURL", "apiKey", "timeout"},
                 b \in BaseURLs, k \in ApiKeys, t \in Timeouts}

(***************************************************************************)
(* Specifications.                                                          *)
(***************************************************************************)
\* A constructed client with no token, no call issued yet, and a transport that
\* either honours the abort signal (the platform fetch) or ignores it.
Init ==
    /\ client = NewClient(TestClientConfig)
    /\ config = ApplyDefaults(TestClientConfig)
    /\ authToken = NULL
    /\ fetchHonoursAbort \in BOOLEAN
    /\ calls = [c \in Calls |-> IdleCall]
    /\ raised = NoRaise

\* Concurrent module calls against one client.
Next ==
    \/ \E token \in Tokens : SetAuthToken(token)
    \/ \E c \in Calls :
        \/ AuthLogin(c)
        \/ DatabaseList(c)
        \/ TimerFire(c)
        \/ \E response \in SomeResponses : TransportResolve(c, response)
        \/ \E error \in SomeRejections : TransportReject(c, error)
        \/ AbortReject(c)
        \/ BodyRead(c)

Spec == Init /\ [][Next]_vars

\* The runtime runs a due timer callback and a settled promise's continuation;
\* a transport that honours the signal does reject once it is aborted.  Nothing
\* obliges the transport to answer on its own.
Fairness ==
    \A c \in Calls :
        /\ WF_vars(TimerFire(c))
        /\ WF_vars(AbortReject(c))
        /\ WF_vars(BodyRead(c))

FairSpec == Spec /\ Fairness

\* One direct makeRequest call with every kind of input and answer.
NextHttp ==
    \/ \E context \in DirectContexts, call \in DirectCalls :
        MakeRequest(1, <<"/", "resource">>, call[1], context, <<>>, call[2])
    \/ TimerFire(1)
    \/ \E response \in AllResponses : TransportResolve(1, response)
    \/ \E error \in AllRejections : TransportReject(1, error)
    \/ AbortReject(1)
    \/ BodyRead(1)

HttpSpec == Init /\ [][NextHttp]_vars

\* One direct GET with every base address, path and queryParams mapping.
NextUrl ==
    \/ \E context \in UrlContexts, path \in UrlPaths, queryParams \in QueryMappings :
        MakeRequest(1, path, "GET", context, queryParams, UNDEF)
    \/ TimerFire(1)
    \/ \E response \in SomeResponses : TransportResolve(1, response)
    \/ \E error \in SomeRejections : TransportReject(1, error)
    \/ AbortReject(1)
    \/ BodyRead(1)

UrlSpec == Init /\ [][NextUrl]_vars

\* Errors of every API kind, constructed by the caller with any status code and
\* raised by one makeRequest call for any response status.
NextErrors ==
    \/ \E kind \in ApiKinds, statusCode \in GivenCodes, errorData \in ErrorPayloads :
        NewError(kind, <<"failed">>, statusCode, errorData)
    \/ MakeRequest(1, <<"/", "error">>, "GET", ErrorContext, <<>>, UNDEF)
    \/ TimerFire(1)
    \/ \E response \in ErrorResponses : TransportResolve(1, response)
    \/ \E error \in SomeRejections : TransportReject(1, error)
    \/ AbortReject(1)
    \/ BodyRead(1)

ErrorSpec == Init /\ [][NextErrors]_vars

\* One call of any module method, valid or not, through the test client.
NextModules ==
    \/ \E token \in Tokens : SetAuthToken(token)
    \/ \E payload \in CreatePayloads : DatabaseCreate(1, payload)
    \/ \E dbName \in DbNames : DatabaseDelete(1, dbName)
    \/ \E dbName \in DbNames, payload \in SchemaPayloads : SchemaDefine(1, dbName, payload)
    \/ \E dbName \in DbNames, tableName \in TableNames :
            SchemaGetSchema(1, dbName, tableName)
    \/ \E dbName \in DbNames, tableName \in TableNames, payload \in RecordPayloads :
            RecordCreate(1, dbName, tableName, payload)
    \/ \E dbName \in DbNames, tableName \in TableNames, recordId \in RecordIds :
            \/ RecordGet(1, dbName, tableName, recordId)
            \/ RecordDelete(1, dbName, tableName, recordId)
            \/ \E payload \in RecordPayloads :
                    RecordUpdate(1, dbName, tableName, recordId, payload)
    \/ AuthSignup(1)
    \/ AuthLogin(1)
    \/ \E payload \in ProfilePayloads : AuthUpdateProfile(1, payload)
    \/ \E userId \in UserIds : AuthFindUser(1, userId)
    \/ TimerFire(1)
    \/ \E response \in SomeResponses : TransportResolve(1, response)
    \/ \E error \in SomeRejections : TransportReject(1, error)
    \/ AbortReject(1)
    \/ BodyRead(1)

ModuleSpec == Init /\ [][NextModules]_vars

\* The life of one client object, from the constructor call on, with one module
\* call through it.
InitClient ==
    /\ client = NoClient
    /\ config = NoConfig
    /\ authToken = NULL
    /\ fetchHonoursAbort \in BOOLEAN
    /\ calls = [c \in Calls |-> IdleCall]
    /\ raised = NoRaise

NextClient ==
    \/ \E arg \in ConfigArgs : Construct(arg)
    \/ \E token \in Tokens : SetAuthToken(token)
    \/ GetAuthToken
    \/ GetConfig
    \/ DatabaseList(1)
    \/ TimerFire(1)
    \/ \E response \in SomeResponses : TransportResolve(1, response)
    \/ \E error \in SomeRejections : TransportReject(1, error)
    \/ AbortReject(1)
    \/ BodyRead(1)

ClientSpec == InitClient /\ [][NextClient]_vars

(***************************************************************************)
(* Vocabulary of the properties.                                            *)
(***************************************************************************)
Dispatched(c) == calls[c].fetched > 0
Settled(c) == calls[c].pc = "settled"
Succeeded(c) == Settled(c) /\ calls[c].outcome.type = "value"
Failed(c) == Settled(c) /\ calls[c].outcome.type = "error"
FailedWith(c, kind) == Failed(c) /\ calls[c].outcome.error.kind = kind
\* The countdown ran out while the call was still waiting for the transport.
Elapsed(c) == calls[c].timer = "fired"
\* The transport function resolved with a response.
Answered(c) == calls[c].response # NoResponse
Header(c, name) == calls[c].req.headers[name]
HasHeader(c, name) == name \in DOMAIN calls[c].req.headers

(***************************************************************************)
(* C1.  Every makeRequest call that dispatches a request settles exactly    *)
(* once: its promise is never settled twice, and it does not stay pending   *)
(* for ever, whatever the transport function does.                          *)
(* The code waits on the transport alone: a transport that neither answers  *)
(* nor reacts to the abort signal leaves the call pending for ever (C2).    *)
(***************************************************************************)
C1_SettlesExactlyOnce ==
    /\ \A c \in Calls : [](calls[c].settles <= 1)
    /\ \A c \in Calls : Dispatched(c) ~> (Settled(c) /\ calls[c].settles = 1)

(***************************************************************************)
(* C2.  A call whose transport has not answered when the countdown elapses  *)
(* eventually rejects with a TimeoutError, also when the transport does     *)
(* not react to the abort signal.  (A call whose transport did answer in    *)
(* the meantime is outside the claim.)                                      *)
(***************************************************************************)
C2_TimeoutWhenTransportHangs ==
    \A c \in Calls :
        (Elapsed(c) /\ calls[c].pc = "fetching")
            ~> (FailedWith(c, "TimeoutError") \/ calls[c].pc # "fetching")

(***************************************************************************)
(* C3.  Once the countdown of a call has elapsed before the transport       *)
(* resolved, the call settles with the TimeoutError only: a response that   *)
(* arrives later produces neither a value nor an HTTP error.                *)
(***************************************************************************)
C3_NoResultAfterTimeout ==
    \A c \in Calls :
        (Elapsed(c) /\ Settled(c)) => (FailedWith(c, "TimeoutError") /\ ~Answered(c))

(***************************************************************************)
(* The server's payload as the pipeline decodes it: the JSON document of a  *)
(* readable, non-empty body sent as application/json.                       *)
(***************************************************************************)
SentJson(response) ==
    /\ ~response.readFails
    /\ response.text # ""
    /\ IsJson(response)
    /\ ~ParseJSON(response.text).threw

ServerPayload(response) == ParseJSON(response.text).value

\* The server sent a JSON object that carries an `error` field.
SentErrorObject(response) ==
    SentJson(response) /\ "error" \in ServerPayload(response).has

\* The table of section 4.1, for the statuses it names.
MappedStatus(status) == status \in {400, 401, 403, 404, 429} \/ status >= 500

KindOfStatus(status) ==
    CASE status = 400 -> "BadRequestError"
      [] status = 401 -> "AuthError"
      [] status = 403 -> "ForbiddenError"
      [] status = 404 -> "NotFoundError"
      [] status = 429 -> "RateLimitError"
      [] OTHER -> "ServerError"

(***************************************************************************)
(* C4.  For every non-2xx response with status 400, 401, 403, 404, 429 or   *)
(* >= 500, the call rejects with the error kind of that status, whatever    *)
(* the body; the error's statusCode is the response status; and when the    *)
(* server sent a JSON object with an `error` field, errorData is that       *)
(* object and the message contains the server's error string.               *)
(***************************************************************************)
C4_StatusDecidesErrorKind ==
    \A c \in Calls :
        (Settled(c) /\ Answered(c) /\ MappedStatus(calls[c].response.status))
            => LET response == calls[c].response
                   error == calls[c].outcome.error
               IN  /\ FailedWith(c, KindOfStatus(response.status))
                   /\ error.statusCode = response.status
                   /\ SentErrorObject(response) =>
                        /\ error.errorData = ServerPayload(response)
                        /\ Contains(error.message, ServerPayload(response).error)

C4_Witness ==
    \E c \in Calls :
        /\ FailedWith(c, "RateLimitError")
        /\ calls[c].response.status = 429
        /\ calls[c].response.text = "{error:boom,details:d}"
        /\ calls[c].outcome.error.errorData.details = <<"d">>
        /\ calls[c].outcome.error.message = <<"boom">>

(***************************************************************************)
(* C5 as stated.  For every non-2xx status that is none of 400, 401, 403,   *)
(* 404, 429 and is below 500, the call rejects with the generic ApiError,   *)
(* statusCode the response status and errorData the server's payload.       *)
(***************************************************************************)
Unmapped(response) == ~Ok(response) /\ ~MappedStatus(response.status)

C6_NoContentIsNull ==
    \A c \in Calls :
        (Answered(c) /\ calls[c].response.status = 204)
            => /\ Succeeded(c)
               /\ calls[c].outcome.value = NULL
               /\ ~calls[c].bodyRead

C6_Witness ==
    \E c \in Calls :
        /\ Succeeded(c)
        /\ calls[c].response.status = 204
        /\ calls[c].response.ctype = JsonType
        /\ calls[c].response.text = "{id:1}"
        /\ calls[c].outcome.value = NULL

(***************************************************************************)
(* C7.  The dispatched request carries Content-Type: application/json and   *)
(* a JSON-serialized body if and only if a body argument was given (any     *)
(* value but undefined, the falsy 0, false, '' and null included).          *)
(***************************************************************************)
C7_ContentTypeIffBodyGiven ==
    \A c \in Calls :
        Dispatched(c) =>
            LET given == calls[c].body # UNDEF
            IN  /\ HasHeader(c, "Content-Type") <=> given
                /\ calls[c].req.body.present <=> given
                /\ given => /\ Header(c, "Content-Type") = <<"application/json">>
                            /\ calls[c].req.body = JSONStringify(calls[c].body)

(***************************************************************************)
(* C8.  A request dispatched through a module method that sends the         *)
(* client's credential carries the token of the slot, as read at call       *)
(* time, in its Authorization header; with the slot unset (null) it has no  *)
(* Authorization header.                                                    *)
(***************************************************************************)
C8_TokenSlotIsAttached ==
    \A c \in Calls :
        (Dispatched(c) /\ calls[c].op = "database.list")
            => IF calls[c].ctx.authToken = NULL
               THEN ~HasHeader(c, "Authorization")
               ELSE /\ HasHeader(c, "Authorization")
                    /\ Contains(Header(c, "Authorization"), calls[c].ctx.authToken.v)

C11_RejectionBecomesNetworkError ==
    \A c \in Calls :
        (Settled(c) /\ calls[c].rejected /\ calls[c].rejection.name # "AbortError")
            => /\ FailedWith(c, "NetworkError")
               /\ calls[c].outcome.error.cause = calls[c].rejection
               /\ Contains(calls[c].outcome.error.message, <<"Failed to fetch: ">>)

(***************************************************************************)
(* C12.  Every failure of makeRequest is a typed SDK error: a TimeoutError, *)
(* a NetworkError or an ApiError kind, all of them NebulaError, whatever    *)
(* the transport rejects with, whatever the body read does and whatever     *)
(* base address, path or body the caller supplies.                          *)
(***************************************************************************)
C12_EveryFailureIsTyped ==
    \A c \in Calls :
        Failed(c) =>
            /\ InstanceOf(calls[c].outcome.error, "NebulaError")
            /\ calls[c].outcome.error.kind
                    \in {"TimeoutError", "NetworkError"} \cup ApiKinds

C14_ApiKeyRequired ==
    (/\ client.state # "new"
     /\ client.arg.t = "object"
     /\ Truthy(client.arg.baseURL) /\ IsAbsoluteUrl(client.arg.baseURL.v)
     /\ ~Truthy(client.arg.apiKey))
        => /\ client.state = "failed"
           /\ InstanceOf(client.thrown, "NebulaError")

(***************************************************************************)
(* C15.  getAuthToken returns null on a fresh client and otherwise the      *)
(* argument of the latest setAuthToken call, null included.                 *)
(***************************************************************************)
C15_GetReturnsLatestSet ==
    [][(client'.returned # client.returned /\ client'.returned.op = "getAuthToken")
          => client'.returned.token = client.lastSet]_vars

\* A token was set, cleared with null, and getAuthToken returned the null.
C15_Witness ==
    /\ client.returned.op = "getAuthToken"
    /\ client.returned.token = NULL
    /\ client.lastSet = NULL
    /\ \E c \in Calls : calls[c].ctx.authToken = Str("my.jwt.token")

EmptyName(x) == x \in {Str(""), UNDEF, NULL}

TakesDbName(op) ==
    op \in {"database.delete", "schema.define", "schema.getSchema", "records.create",
            "records.get", "records.update", "records.delete"}

TakesTableName(op) ==
    op \in {"schema.getSchema", "records.create", "records.get", "records.update",
            "records.delete"}

\* The call of c breaks one of the input rules of its method.
InputViolation(c) ==
    LET op == calls[c].op
        args == calls[c].args
    IN  \/ TakesDbName(op) /\ EmptyName(args.dbName)
        \/ TakesTableName(op) /\ EmptyName(args.tableName)
        \/ op = "auth.findUser" /\ EmptyName(args.userId)
        \/ op \in {"records.create", "records.update"}
              /\ args.payload \in {UNDEF, NULL, Payload(<<>>), Arr}
        \/ op = "database.create" /\ args.payload \in {UNDEF, DbCreatePayload("")}
        \/ op = "schema.define"
              /\ args.payload \in {UNDEF, Payload(<<>>),
                                    Payload(<<"table_name", "", "columns", "[id]">>),
                                    Payload(<<"table_name", "users", "columns", "[]">>),
                                    Payload(<<"table_name", "users">>)}
        \/ op = "auth.updateProfile"
              /\ args.payload \in {UNDEF, Payload(<<>>), Payload(<<"username", "">>),
                                    Payload(<<"username", "", "email", "">>)}

C18_RecordIdPositiveInteger ==
    \A c \in Calls :
        (/\ calls[c].pc # "idle"
         /\ calls[c].op \in {"records.get", "records.update", "records.delete"}
         /\ ~EmptyName(calls[c].args.dbName)
         /\ ~EmptyName(calls[c].args.tableName)
         /\ calls[c].op = "records.update"
                => calls[c].args.payload = Payload(<<"name", "New">>))
            => LET recordId == calls[c].args.recordId
                   url == calls[c].req.url
               IN  IF recordId \in {Num(1), Num(42)}
                   THEN /\ Dispatched(c)
                        /\ SubSeq(url, Len(url) - 2, Len(url))
                              = <<"/records", "/">> \o recordId.v
                   ELSE /\ FailedWith(c, "Error")
                        /\ calls[c].outcome.error.message
                              = <<"Record ID must be a positive integer.">>
                        /\ calls[c].fetched = 0

C20_CallsAreIndependent ==
    [][\A c \in Calls :
          /\ (~calls[c].aborted /\ calls'[c].aborted)
                => /\ calls[c].timer = "armed" /\ calls'[c].timer = "fired"
                   /\ \A d \in Calls \ {c} : ~calls'[d].aborted \/ calls[d].aborted
          /\ calls'[c] # calls[c]
                => \A d \in Calls \ {c} : calls'[d] = calls[d]]_vars

\* Two calls were in flight; the countdown of one elapsed and it timed out, the
\* other was never aborted and got its answer.
C20_Witness ==
    \E c, d \in Calls :
        /\ c # d
        /\ Elapsed(c) /\ FailedWith(c, "TimeoutError")
        /\ ~calls[d].aborted /\ Succeeded(d)
        /\ calls[d].outcome.value # NULL

(***************************************************************************)
(* C21.  No settled call has a pending countdown: on every completion path  *)
(* (value, HTTP error, network failure, timeout) the timer has fired or has *)
(* been cleared by the time the call settles.                               *)
(***************************************************************************)
C21_NoPendingTimerOnceSettled ==
    \A c \in Calls : Settled(c) => calls[c].timer # "armed"

\* A network failure before the countdown elapsed: the timer was cleared.
C21_Witness ==
    \E c \in Calls :
        /\ FailedWith(c, "NetworkError")
        /\ calls[c].rejected
        /\ calls[c].timer = "cleared"

\* Reading or parsing the body of the response failed.
BodyFailed(response) ==
    \/ response.readFails
    \/ response.text # "" /\ IsJson(response) /\ ParseJSON(response.text).threw

\* The error kind the status table gives a non-2xx status.
StatusKind(status) ==
    IF MappedStatus(status) THEN KindOfStatus(status) ELSE "ApiError"

SyntheticErrorData(status) ==
    Obj({"error"}, <<"Received status ", ToString(status), " with invalid JSON body.">>,
        <<>>, <<>>, <<>>)

(***************************************************************************)
(* C22.  When the body read or the JSON parse fails: on a 2xx response the  *)
(* call rejects with a NetworkError and yields no value; on a non-2xx       *)
(* response it rejects with the error of the status, whose errorData is     *)
(* {error: 'Received status <code> with invalid JSON body.'}.               *)
(***************************************************************************)
C22_BodyFailureByStatus ==
    \A c \in Calls :
        (Settled(c) /\ calls[c].bodyRead /\ BodyFailed(calls[c].response))
            => LET response == calls[c].response
               IN  IF Ok(response)
                   THEN /\ FailedWith(c, "NetworkError")
                        /\ calls[c].outcome.value = UNDEF
                   ELSE /\ FailedWith(c, StatusKind(response.status))
                        /\ calls[c].outcome.error.errorData
                              = SyntheticErrorData(response.status)

C22_Witness ==
    \E c \in Calls :
        /\ FailedWith(c, "NotFoundError")
        /\ calls[c].response.readFails
        /\ calls[c].outcome.error.errorData
              = Obj({"error"}, <<"Received status ", "404", " with invalid JSON body.">>,
                    <<>>, <<>>, <<>>)

(***************************************************************************)
(* C23.  A non-2xx response whose body is text that is no JSON (status 500  *)
(* with Content-Type text/html, say) rejects with the error of the status,  *)
(* statusCode the status, errorData                                         *)
(* {error: 'Received status <status> with invalid JSON body.'} and a        *)
(* message that contains 'Received status <status>'.                        *)
(***************************************************************************)
C23_NonJsonErrorBody ==
    \A c \in Calls :
        (/\ Settled(c) /\ calls[c].bodyRead
         /\ ~Ok(calls[c].response)
         /\ ~calls[c].response.readFails
         /\ calls[c].response.text = "<h1>Error</h1>")
            => LET response == calls[c].response
                   error == calls[c].outcome.error
               IN  /\ FailedWith(c, StatusKind(response.status))
                   /\ MappedStatus(response.status)
                        => error.statusCode = response.status
                   /\ error.errorData = SyntheticErrorData(response.status)
                   /\ Contains(error.message,
                               <<"Received status ", ToString(response.status)>>)

\* The string without its trailing (leading) slashes.
RECURSIVE NoTrailingSlash(_)
NoTrailingSlash(s) ==
    IF Len(s) > 0 /\ s[Len(s)] = "/" THEN NoTrailingSlash(SubSeq(s, 1, Len(s) - 1)) ELSE s

RECURSIVE NoLeadingSlash(_)
NoLeadingSlash(s) ==
    IF Len(s) > 0 /\ s[1] = "/" THEN NoLeadingSlash(Tail(s)) ELSE s

(***************************************************************************)
(* C24.  For every base address and every path, with or without trailing    *)
(* and leading slashes, the request URL is the base address and the path    *)
(* joined by exactly one '/': never none, never more than one.              *)
(***************************************************************************)
C24_ExactlyOneSeparator ==
    \A c \in Calls :
        Dispatched(c)
            => calls[c].req.url
                 = NoTrailingSlash(calls[c].ctx.baseURL) \o <<"/">>
                     \o NoLeadingSlash(calls[c].path)

\* The parameters the query string has to hold: those with a value that is
\* neither undefined nor null, as key and String(value).
KeptParams(query) ==
    {<<query[i][1], ToStr(query[i][2])>> :
        i \in {j \in 1..Len(query) : query[j][2] \notin {UNDEF, NULL}}}

\* The position at which the mapping got the key.
InsertedAt(query, key) == CHOOSE i \in 1..Len(query) : query[i][1] = key

\* The query string holds exactly the kept parameters, each once.
HoldsKeptOnce(c) ==
    LET search == calls[c].req.search
    IN  /\ {search[i] : i \in 1..Len(search)} = KeptParams(calls[c].query)
        /\ Len(search) = Cardinality(KeptParams(calls[c].query))

(***************************************************************************)
(* C25 as stated.  The query string holds exactly the parameters whose      *)
(* value is neither undefined nor null, each once as key=String(value), in  *)
(* the insertion order of the queryParams mapping; false, 0 and the empty   *)
(* string are kept.                                                         *)
(***************************************************************************)
C25_Original ==
    \A c \in Calls :
        Dispatched(c)
            => LET search == calls[c].req.search
                   query == calls[c].query
               IN  /\ HoldsKeptOnce(c)
                   /\ \A i, j \in 1..Len(search) :
                        i < j => InsertedAt(query, search[i][1])
                                   < InsertedAt(query, search[j][1])

(***************************************************************************)
(* C25.  The query string holds exactly the parameters whose value is       *)
(* neither undefined nor null, each once as key=String(value); false, 0 and *)
(* the empty string are kept.  Their order is the enumeration order of the  *)
(* mapping: keys that are array indices first, in ascending numeric order,  *)
(* then the other keys in insertion order.                                  *)
(***************************************************************************)
C25_QueryHoldsNonNullishParams ==
    \A c \in Calls :
        Dispatched(c)
            => LET search == calls[c].req.search
                   query == calls[c].query
               IN  /\ HoldsKeptOnce(c)
                   /\ \A i, j \in 1..Len(search) :
                        i < j =>
                          LET a == search[i][1]
                              b == search[j][1]
                          IN  CASE a \in IndexKeys /\ b \in IndexKeys ->
                                       IndexOf(a) < IndexOf(b)
                                [] a \in IndexKeys -> TRUE
                                [] b \in IndexKeys -> FALSE
                                [] OTHER -> InsertedAt(query, a) < InsertedAt(query, b)

\* A request whose mapping had 0, '' and a number: all three are in the query.
C25_Witness ==
    \E c \in Calls :
        /\ Dispatched(c)
        /\ calls[c].query = <<(<<"offset", Num(0)>>), <<"q", Str("")>>, <<"limit", Num(10)>>>>
        /\ calls[c].req.search = <<(<<"offset", <<"0">> >>), <<"q", <<>> >>,
                                    <<"limit", <<"10">> >> >>

(***************************************************************************)
(* C26.  The requests of auth.signup and auth.login carry no credential:    *)
(* whatever the configured apiKey and the current token, the dispatched     *)
(* request has no Authorization header.                                     *)
(***************************************************************************)
C26_SignupLoginCarryNoCredential ==
    \A c \in Calls :
        (Dispatched(c) /\ calls[c].op \in {"auth.signup", "auth.login"})
            => ~HasHeader(c, "Authorization")

(***************************************************************************)
(* C27.  After construction the configuration never changes: setAuthToken   *)
(* changes the token slot and nothing else, and no step of a module call or *)
(* of makeRequest writes the configuration or the token slot.               *)
(***************************************************************************)
C27_ConfigurationIsReadOnly ==
    [][/\ config' = config
       /\ authToken' # authToken =>
             /\ calls' = calls
             /\ authToken' = client'.lastSet
       /\ calls' # calls => authToken' = authToken]_vars

\* A token was set while a call was in flight, and the call has succeeded since.
C27_Witness ==
    \E c \in Calls :
        /\ Succeeded(c)
        /\ calls[c].ctx.authToken = NULL
        /\ authToken = Str("my.jwt.token")
        /\ config = ApplyDefaults(TestClientConfig)

\* The status code an error of the kind has to carry.
AgreesWithKind(error) ==
    CASE error.kind = "BadRequestError" -> error.statusCode = 400
      [] error.kind = "AuthError" -> error.statusCode = 401
      [] error.kind = "ForbiddenError" -> error.statusCode = 403
      [] error.kind = "NotFoundError" -> error.statusCode = 404
      [] error.kind = "RateLimitError" -> error.statusCode = 429
      [] error.kind = "ServerError" -> error.statusCode >= 500
      [] OTHER -> TRUE

(***************************************************************************)
(* C28.  The status code of every error of an API kind agrees with its      *)
(* kind: 400, 401, 403, 404 and 429 for the five fixed kinds, at least 500  *)
(* for a ServerError; a ServerError constructed with a code below 500       *)
(* carries 500, one constructed with a code from 500 carries that code; and *)
(* makeRequest raises a ServerError for no response status below 500.       *)
(***************************************************************************)
C28_StatusCodeAgreesWithKind ==
    /\ AgreesWithKind(raised.error)
    /\ raised.error.kind = "ServerError" =>
          raised.error.statusCode = (IF raised.given < 500 THEN 500 ELSE raised.given)
    /\ \A c \in Calls :
          Failed(c) =>
            /\ AgreesWithKind(calls[c].outcome.error)
            /\ FailedWith(c, "ServerError") =>
                  /\ calls[c].response.status >= 500
                  /\ calls[c].outcome.error.statusCode = calls[c].response.status

\* A ServerError constructed with 404 carries 500, and a call answered with 503
\* has failed with a ServerError.
C28_Witness ==
    /\ raised.error.kind = "ServerError"
    /\ raised.given = 404
    /\ raised.error.statusCode = 500
    /\ \E c \in Calls :
          FailedWith(c, "ServerError") /\ calls[c].response.status = 503

(***************************************************************************)
(* C29.  A call rejects with a TimeoutError only if its own countdown has   *)
(* elapsed: a rejection of the transport before that is never reported as   *)
(* a TimeoutError, whatever the name of the rejection value.                *)
(***************************************************************************)
C29_TimeoutOnlyAfterCountdown ==
    \A c \in Calls : FailedWith(c, "TimeoutError") => Elapsed(c)

(***************************************************************************)
(* C30.  Once the transport has resolved with a response the countdown is   *)
(* no longer pending: from then on the abort signal of the call is not      *)
(* triggered, during the body read or after it, and the call does not       *)
(* settle with a TimeoutError.                                              *)
(***************************************************************************)
C30_NoAbortAfterResponse ==
    [][\A c \in Calls :
          /\ Answered(c)' =>
                /\ calls'[c].timer # "armed"
                /\ ~FailedWith(c, "TimeoutError")'
          /\ Answered(c) =>
                /\ calls'[c].aborted = calls[c].aborted
                /\ calls'[c].timer = calls[c].timer]_vars

\* The body of an answer was read and the call settled; its timer never fired.
C30_Witness ==
    \E c \in Calls :
        /\ Succeeded(c) /\ calls[c].bodyRead
        /\ calls[c].timer = "cleared"
        /\ ~calls[c].aborted

====
